---- MODULE Spec2Model ----
(***************************************************************************)
(* Model of neurobooth_analysis_tools:                                     *)
(*   preprocess/gaze/norm.py   - the four gaze transformation functions    *)
(*   data/eyelink_asc/parser.py - parse_href, parse_gaze, href_velocity    *)
(*                                                                         *)
(* float64 values are modelled as a reduced-precision float format: a      *)
(* finite value is an integer k standing for k / SCALE, |k| <= MAXK, and   *)
(* there are three non-finite values NaN, PInf and NInf.  Every operation  *)
(* rounds toward zero and overflows to an infinity, and NaN propagates and *)
(* compares false with everything, as in IEEE 754.                         *)
(*                                                                         *)
(* numpy arrays live in a heap (a sequence of arrays, the index being the  *)
(* identity of the array), so that np.copy, in-place operators and         *)
(* operators that allocate their result are distinguished.                 *)
(***************************************************************************)
EXTENDS Integers, Sequences, FiniteSets, TLC

\* ------------------------------------------------------------------------
\* Bounds of the model
\* ------------------------------------------------------------------------
MaxN == 2
MaxCalls == 2
MaxRows == 2
MaxVelocityCalls == 2

\* ------------------------------------------------------------------------
\* float64
\* ------------------------------------------------------------------------
SCALE == 1000
MAXK == 2000000

PInf == MAXK + 1
NInf == -(MAXK + 1)
NaN == MAXK + 2

\* the float with the integer value n, and the decimal literal n / den
F(n) == n * SCALE
Lit(n, den) == (n * SCALE) \div den

IsNaN(x) == x = NaN
IsInf(x) == x = PInf \/ x = NInf
IsFinite(x) == ~IsNaN(x) /\ ~IsInf(x)

Mag(k) == IF k < 0 THEN -k ELSE k
Sgn(k) == IF k < 0 THEN -1 ELSE IF k > 0 THEN 1 ELSE 0
Sat(k) == IF k > MAXK THEN PInf ELSE IF k < -MAXK THEN NInf ELSE k

FNeg(x) == IF IsNaN(x) THEN NaN ELSE -x

FAbs(x) == IF IsNaN(x) THEN NaN ELSE Mag(x)

FAdd(x, y) ==
    IF IsNaN(x) \/ IsNaN(y) THEN NaN
    ELSE IF IsInf(x) /\ IsInf(y) THEN (IF x = y THEN x ELSE NaN)
    ELSE IF IsInf(x) THEN x
    ELSE IF IsInf(y) THEN y
    ELSE Sat(x + y)

FSub(x, y) == FAdd(x, FNeg(y))

\* |a| * |b| / SCALE on magnitudes, without leaving the 32-bit range
MulMag(a, b) ==
    LET hi == a \div SCALE
        lo == a % SCALE
    IN  IF hi > 0 /\ b > MAXK \div hi THEN PInf
        ELSE Sat(hi * b + (lo * b) \div SCALE)

FMul(x, y) ==
    IF IsNaN(x) \/ IsNaN(y) THEN NaN
    ELSE IF IsInf(x) \/ IsInf(y)
         THEN (IF x = 0 \/ y = 0 THEN NaN
               ELSE IF Sgn(x) * Sgn(y) > 0 THEN PInf ELSE NInf)
    ELSE LET m == MulMag(Mag(x), Mag(y))
         IN  IF Sgn(x) * Sgn(y) < 0 THEN FNeg(m) ELSE m

FDiv(x, y) ==
    IF IsNaN(x) \/ IsNaN(y) THEN NaN
    ELSE IF IsInf(x) /\ IsInf(y) THEN NaN
    ELSE IF IsInf(x) THEN (IF Sgn(x) * Sgn(y) < 0 THEN NInf ELSE PInf)
    ELSE IF IsInf(y) THEN 0
    ELSE IF y = 0 THEN (IF x = 0 THEN NaN ELSE IF x > 0 THEN PInf ELSE NInf)
    ELSE LET m == Sat((Mag(x) * SCALE) \div Mag(y))
         IN  IF Sgn(x) * Sgn(y) < 0 THEN FNeg(m) ELSE m

\* x > y and x <= y on floats: false as soon as one side is NaN
FGt(x, y) == ~IsNaN(x) /\ ~IsNaN(y) /\ x > y
FLe(x, y) == ~IsNaN(x) /\ ~IsNaN(y) /\ x <= y

\* Python's builtin max(a, b): keeps a unless b > a
py_max(a, b) == IF FGt(b, a) THEN b ELSE a

IMax(a, b) == IF b > a THEN b ELSE a
IMin(a, b) == IF b < a THEN b ELSE a

\* ------------------------------------------------------------------------
\* numpy on (N x 2) arrays.  An array is a sequence of rows <<x, y>>.
\* ------------------------------------------------------------------------
Entries(a) == { a[i][c] : i \in 1..Len(a), c \in 1..2 }

\* a[:, col] -= v
SubCol(a, col, v) == [i \in 1..Len(a) |-> [a[i] EXCEPT ![col] = FSub(@, v)]]
\* a *= v,  a /= v  and  a / v  with a scalar v
MulAll(a, v) == [i \in 1..Len(a) |-> <<FMul(a[i][1], v), FMul(a[i][2], v)>>]
DivAll(a, v) == [i \in 1..Len(a) |-> <<FDiv(a[i][1], v), FDiv(a[i][2], v)>>]
\* a / v[:, np.newaxis]: row i is divided by v[i]
DivRows(a, v) == [i \in 1..Len(a) |-> <<FDiv(a[i][1], v[i]), FDiv(a[i][2], v[i])>>]

np_abs(a) == [i \in 1..Len(a) |-> <<FAbs(a[i][1]), FAbs(a[i][2])>>]

\* np.max over all entries: raises ValueError on a zero-size array, returns NaN
\* as soon as one entry is NaN, and the largest entry otherwise
\* (faulty variant: NaN instead of ValueError on a zero-size array)
np_max_empty_nan(a) ==
    IF Len(a) = 0 \/ NaN \in Entries(a) THEN [raised |-> FALSE, val |-> NaN]
    ELSE [raised |-> FALSE,
          val |-> CHOOSE m \in Entries(a) : \A e \in Entries(a) : e <= m]
np_max(a) ==
    IF Len(a) = 0 THEN [raised |-> TRUE, val |-> NaN]
    ELSE IF NaN \in Entries(a) THEN [raised |-> FALSE, val |-> NaN]
    ELSE [raised |-> FALSE,
          val |-> CHOOSE m \in Entries(a) : \A e \in Entries(a) : e <= m]

\* np.copy: a new array with the same contents
\* (faulty variant: the same array instead of a copy)
np_copy_alias(h, ref) == [heap |-> h, ref |-> ref]
np_copy(h, ref) == [heap |-> Append(h, h[ref]), ref |-> Len(h) + 1]

\* pi and 180 / pi
PI == Lit(3141, 1000)
HALF_PI == Lit(1570, 1000)
QUARTER_PI == Lit(785, 1000)
RAD2DEG == Lit(57295, 1000)

\* arctan on 0 <= q: q / (1 + 0.28 q^2) up to 1, pi/2 - arctan(1/q) above
AtanUnit(q) == FDiv(q, FAdd(F(1), FMul(Lit(28, 100), FMul(q, q))))
AtanPos(q) ==
    IF q = PInf THEN HALF_PI
    ELSE IF q <= F(1) THEN AtanUnit(q)
    ELSE FSub(HALF_PI, AtanUnit(FDiv(F(1), q)))
Atan(q) == IF q < 0 THEN FNeg(AtanPos(-q)) ELSE AtanPos(q)

\* np.arctan2(y, x)
np_arctan2(y, x) ==
    IF IsNaN(y) \/ IsNaN(x) THEN NaN
    ELSE IF IsInf(y) /\ IsInf(x)
         THEN (IF x = PInf
               THEN (IF y = PInf THEN QUARTER_PI ELSE FNeg(QUARTER_PI))
               ELSE (IF y = PInf THEN FSub(PI, QUARTER_PI)
                                 ELSE FNeg(FSub(PI, QUARTER_PI))))
    ELSE IF IsInf(y) THEN (IF y = PInf THEN HALF_PI ELSE FNeg(HALF_PI))
    ELSE IF x = PInf THEN 0
    ELSE IF x = NInf THEN (IF y >= 0 THEN PI ELSE FNeg(PI))
    ELSE IF x > 0 THEN Atan(FDiv(y, x))
    ELSE IF x = 0 THEN (IF y > 0 THEN HALF_PI
                        ELSE IF y < 0 THEN FNeg(HALF_PI) ELSE 0)
    ELSE IF y >= 0 THEN FAdd(Atan(FDiv(y, x)), PI)
    ELSE FSub(Atan(FDiv(y, x)), PI)

np_degrees(x) == FMul(x, RAD2DEG)

\* mm_to_target is [isscalar, v]: v has one element for a float, N for an array
DistAt(mm, i) == IF mm.isscalar THEN mm.v[1] ELSE mm.v[i]

\* ------------------------------------------------------------------------
\* preprocess/gaze/norm.py
\* A function takes the heap and the reference of gaze_pos and returns the
\* heap it leaves, the reference it returns and whether it raised.
\* ------------------------------------------------------------------------
MM_PER_INCH == Lit(254, 10)

\* (faulty variant: half the width instead of half the larger dimension)
px_norm_factor_width(screen) == FDiv(F(screen.width_px), F(2))
px_norm_factor(screen) == FDiv(F(IMax(screen.width_px, screen.height_px)), F(2))

\* the in-place steps of normalize_px_to_screen on its copy a of gaze_pos
px_to_screen_steps(a, screen) ==
    DivAll(SubCol(SubCol(a, 1, FDiv(F(screen.width_px), F(2))),
                  2, FDiv(F(screen.height_px), F(2))),
           px_norm_factor(screen))

normalize_px_to_screen(h, ref, screen) ==
    LET c == np_copy(h, ref)
    IN  [heap |-> [c.heap EXCEPT ![c.ref] = px_to_screen_steps(@, screen)],
         ret |-> c.ref, raised |-> FALSE]

normalize_max_value(h, ref) ==
    LET m == np_max(np_abs(h[ref]))
    IN  IF m.raised THEN [heap |-> h, ret |-> 0, raised |-> TRUE]
        ELSE LET norm_factor == py_max(m.val, F(1))
             IN  [heap |-> Append(h, DivAll(h[ref], norm_factor)),
                  ret |-> Len(h) + 1, raised |-> FALSE]

\* gaze_center is [given, x, y]; given = FALSE stands for None
\* (faulty variant: the pixel origin instead of the screen center)
default_gaze_center_origin(screen) == <<F(0), F(0)>>
default_gaze_center(screen) ==
    <<FDiv(F(screen.width_px), F(2)), FDiv(F(screen.height_px), F(2))>>

\* gaze_pos[:, col] = np.arctan2(gaze_pos[:, col], mm_to_target)
ArctanCol(a, col, mm) ==
    [i \in 1..Len(a) |-> [a[i] EXCEPT ![col] = np_arctan2(@, DistAt(mm, i))]]

\* the in-place steps of pixel_to_dva on its copy a of gaze_pos
pixel_to_dva_steps(a, mm_to_target, screen, gaze_center) ==
    LET center == IF gaze_center.given THEN <<gaze_center.x, gaze_center.y>>
                  ELSE default_gaze_center(screen)
    IN  ArctanCol(
            ArctanCol(
                MulAll(SubCol(SubCol(a, 1, center[1]), 2, center[2]),
                       FDiv(MM_PER_INCH, screen.px_per_inch)),
                1, mm_to_target),
            2, mm_to_target)

\* np.degrees(gaze_pos): a new array
DegreesAll(a) == [i \in 1..Len(a) |-> <<np_degrees(a[i][1]), np_degrees(a[i][2])>>]

pixel_to_dva(h, ref, mm_to_target, screen, gaze_center) ==
    LET c == np_copy(h, ref)
        h1 == [c.heap EXCEPT ![c.ref] =
                  pixel_to_dva_steps(@, mm_to_target, screen, gaze_center)]
    IN  [heap |-> Append(h1, DegreesAll(h1[c.ref])),
         ret |-> Len(h1) + 1, raised |-> FALSE]

\* the angular extent of half the larger screen dimension at distance d
dva_norm_factor(screen, d) ==
    LET norm_factor_px == FDiv(F(IMax(screen.width_px, screen.height_px)), F(2))
        norm_factor_mm == FMul(norm_factor_px, FDiv(MM_PER_INCH, screen.px_per_inch))
    IN  np_degrees(np_arctan2(norm_factor_mm, d))

\* gaze_pos / norm_factor[:, np.newaxis]
\* (faulty variant: every row divided by the first sample's factor)
dva_divide_first_row(a, norm_factor) ==
    [i \in 1..Len(a) |-> <<FDiv(a[i][1], norm_factor[1]), FDiv(a[i][2], norm_factor[1])>>]
dva_divide_rows(a, norm_factor) == DivRows(a, norm_factor)

\* gaze_pos / norm_factor: a new array
dva_to_screen_result(a, mm_to_target, screen) ==
    IF mm_to_target.isscalar
    THEN DivAll(a, dva_norm_factor(screen, mm_to_target.v[1]))
    ELSE dva_divide_rows(a, [i \in 1..Len(mm_to_target.v) |->
                                dva_norm_factor(screen, mm_to_target.v[i])])

normalize_dva_to_screen(h, ref, mm_to_target, screen) ==
    [heap |-> Append(h, dva_to_screen_result(h[ref], mm_to_target, screen)),
     ret |-> Len(h) + 1, raised |-> FALSE]

\* ------------------------------------------------------------------------
\* The caller of norm.py: one gaze series, one target distance and one
\* screen, and calls of the four functions on any array it holds.
\* ------------------------------------------------------------------------
VARIABLES heap, gaze_pos, calls, mm_to_target, screen
\* the state of the caller of parser.py (defined with parser.py below)
VARIABLES asc_file, df, velocity_calls, error

parserVars == <<asc_file, df, velocity_calls, error>>

normVars == <<heap, gaze_pos, calls, mm_to_target, screen>>

\* the recording the caller's series is taken from: values around 1 and
\* pixel positions on the screen (its ends, its center, a sample near the
\* center), some of them missing
Recording ==
    << <<F(2), F(-3)>>, <<NaN, F(1)>>, <<NaN, NaN>>,
       <<F(1920), F(540)>>, <<F(0), F(1920)>>, <<F(960), F(540)>>,
       <<F(1000), F(560)>>, <<F(1080), F(0)>> >>

\* a series is up to MaxN samples of the recording, in its order
GazeSeries ==
    UNION { { [i \in 1..n |-> Recording[f[i]]] :
                f \in { g \in [1..n -> 1..Len(Recording)] :
                          \A i \in 1..(n - 1) : g[i] < g[i + 1] } } :
            n \in 0..MaxN }

Screens ==
    { [width_px |-> 1920, height_px |-> 1080, px_per_inch |-> F(90)],
      [width_px |-> 1080, height_px |-> 1920, px_per_inch |-> F(90)] }

ScalarDistances == { F(600), NaN, PInf }

\* a per-sample distance: the head moves away by 100 mm per sample
SampleDistances(n) == [i \in 1..n |-> F(600 + 100 * (i - 1))]

Distances(n) ==
    { [isscalar |-> TRUE, v |-> <<d>>] : d \in ScalarDistances }
    \cup { [isscalar |-> FALSE, v |-> SampleDistances(n)] }

GazeCenters ==
    { [given |-> FALSE, x |-> F(0), y |-> F(0)],
      [given |-> TRUE, x |-> F(1000), y |-> F(560)] }

NormInit ==
    /\ \E a \in GazeSeries :
          /\ heap = <<a>>
          /\ mm_to_target \in Distances(Len(a))
    /\ gaze_pos = 1
    /\ screen \in Screens
    /\ calls = <<>>

\* gaze_pos = f(gaze_pos, ...): the caller keeps the result, or its old array
\* when f raised
Returned(op, center, r) ==
    /\ heap' = r.heap
    /\ gaze_pos' = IF r.raised THEN gaze_pos ELSE r.ret
    /\ calls' = Append(calls, [op |-> op, arg |-> gaze_pos, center |-> center,
                               ret |-> r.ret, raised |-> r.raised])
    /\ UNCHANGED <<mm_to_target, screen>>
    /\ UNCHANGED parserVars

Call_normalize_px_to_screen ==
    /\ Len(calls) < MaxCalls
    /\ Returned("normalize_px_to_screen", FALSE,
                normalize_px_to_screen(heap, gaze_pos, screen))

Call_normalize_max_value ==
    /\ Len(calls) < MaxCalls
    /\ Returned("normalize_max_value", FALSE, normalize_max_value(heap, gaze_pos))

Call_pixel_to_dva ==
    /\ Len(calls) < MaxCalls
    /\ \E gc \in GazeCenters :
          Returned("pixel_to_dva", gc.given,
                   pixel_to_dva(heap, gaze_pos, mm_to_target, screen, gc))

Call_normalize_dva_to_screen ==
    /\ Len(calls) < MaxCalls
    /\ Returned("normalize_dva_to_screen", FALSE,
                normalize_dva_to_screen(heap, gaze_pos, mm_to_target, screen))

\* ------------------------------------------------------------------------
\* data/eyelink_asc/parser.py
\* An .asc file is a sequence of lines of nine tab-separated cells (time,
\* left x, y, pupil, right x, y, pupil, resolution x, y).  A cell is its
\* text: one of the missing-value texts, or a number (text = "number").
\* A DataFrame is a function from column names to float series.
\* ------------------------------------------------------------------------
NA_VALUES == { "...", "   .", "... " }

\* pd.read_csv's conversion of one cell under na_values and dtype float64
read_cell(cell) == IF cell.text \in NA_VALUES THEN NaN ELSE F(cell.value)

\* pd.read_csv(usecols, names): the named columns taken from the used cells
read_csv(file, usecols, names) ==
    [c \in { names[k] : k \in 1..Len(names) } |->
        LET k == CHOOSE j \in 1..Len(names) : names[j] = c
        IN  [i \in 1..Len(file) |-> read_cell(file[i][usecols[k] + 1])]]

parse_href(file) ==
    read_csv(file, <<0, 1, 2, 4, 5>>,
             <<"Time_EDF", "L_GazeX_HREF", "L_GazeY_HREF",
               "R_GazeX_HREF", "R_GazeY_HREF">>)

parse_gaze(file) ==
    read_csv(file, <<0, 1, 2, 4, 5, 7, 8>>,
             <<"Time_EDF", "L_GazeX", "L_GazeY", "R_GazeX", "R_GazeY",
               "ResolutionX", "ResolutionY">>)

\* calc_eye_velocity(x, y, ts) of preprocess/gaze/href.py: two new series of
\* the length of its arguments, the backward difference quotient of each
\* coordinate (no velocity at the first sample)
Derivative(x, ts) ==
    [i \in 1..Len(x) |->
        IF i = 1 THEN NaN
        ELSE FDiv(FSub(x[i], x[i - 1]), FSub(ts[i], ts[i - 1]))]
calc_eye_velocity(x, y, ts) == <<Derivative(x, ts), Derivative(y, ts)>>

\* ts = df['Time_EDF'].to_numpy() / 1e3
href_velocity_ts(d) ==
    [i \in 1..Len(d["Time_EDF"]) |-> FDiv(d["Time_EDF"][i], F(1000))]

\* href_velocity on a DataFrame with the columns of parse_href: the
\* DataFrame it leaves and the arguments of its calc_eye_velocity calls
\* (faulty variant: the seconds written back to Time_EDF)
href_velocity_writeback(d) ==
    LET ts == href_velocity_ts(d)
        l == calc_eye_velocity(d["L_GazeX_HREF"], d["L_GazeY_HREF"], ts)
        r == calc_eye_velocity(d["R_GazeX_HREF"], d["R_GazeY_HREF"], ts)
    IN  [df |-> ("Time_EDF" :> ts) @@
                ("L_GazeX_HREF_Vel" :> l[1]) @@ ("L_GazeY_HREF_Vel" :> l[2]) @@
                ("R_GazeX_HREF_Vel" :> r[1]) @@ ("R_GazeY_HREF_Vel" :> r[2]) @@ d,
         passed |-> << [eye |-> "L", x |-> d["L_GazeX_HREF"],
                        y |-> d["L_GazeY_HREF"], ts |-> ts],
                       [eye |-> "R", x |-> d["R_GazeX_HREF"],
                        y |-> d["R_GazeY_HREF"], ts |-> ts] >>]
href_velocity(d) ==
    LET ts == href_velocity_ts(d)
        l == calc_eye_velocity(d["L_GazeX_HREF"], d["L_GazeY_HREF"], ts)
        r == calc_eye_velocity(d["R_GazeX_HREF"], d["R_GazeY_HREF"], ts)
    IN  [df |-> ("L_GazeX_HREF_Vel" :> l[1]) @@ ("L_GazeY_HREF_Vel" :> l[2]) @@
                ("R_GazeX_HREF_Vel" :> r[1]) @@ ("R_GazeY_HREF_Vel" :> r[2]) @@ d,
         passed |-> << [eye |-> "L", x |-> d["L_GazeX_HREF"],
                        y |-> d["L_GazeY_HREF"], ts |-> ts],
                       [eye |-> "R", x |-> d["R_GazeX_HREF"],
                        y |-> d["R_GazeY_HREF"], ts |-> ts] >>]

\* ------------------------------------------------------------------------
\* The caller of parser.py: one .asc file, the DataFrame parsed from it and
\* the calls of calc_eye_velocity made so far.
\* ------------------------------------------------------------------------
Num(n) == [text |-> "number", value |-> n]
Missing(t) == [text |-> t, value |-> 0]

\* lines of a recording: the time in ms, then the samples
AscLines ==
    { <<Num(0), Num(100), Num(-50), Num(900), Num(110), Num(-40), Num(910),
        Num(30), Num(31)>>,
      <<Num(2), Num(104), Num(-52), Num(900), Num(112), Num(-46), Num(910),
        Num(30), Num(31)>>,
      <<Num(1000), Missing("   ."), Missing("   ."), Num(0), Num(120), Num(-44),
        Num(910), Num(30), Num(31)>>,
      <<Num(2000), Num(90), Num(-60), Num(900), Missing("..."), Missing("... "),
        Num(0), Num(30), Num(31)>> }

AscFiles == UNION { [1..n -> AscLines] : n \in 0..MaxRows }

NoDataFrame == <<>>

ParserInit ==
    /\ asc_file \in AscFiles
    /\ df = NoDataFrame
    /\ velocity_calls = <<>>
    /\ error = "none"

Call_parse_href ==
    /\ df' = parse_href(asc_file)
    /\ error' = "none"
    /\ UNCHANGED <<asc_file, velocity_calls>>
    /\ UNCHANGED normVars

Call_parse_gaze ==
    /\ df' = parse_gaze(asc_file)
    /\ error' = "none"
    /\ UNCHANGED <<asc_file, velocity_calls>>
    /\ UNCHANGED normVars

\* df['L_GazeX_HREF'] raises KeyError on a DataFrame of parse_gaze, after ts
\* was computed and before anything is written
Call_href_velocity ==
    /\ "Time_EDF" \in DOMAIN df
    /\ Len(velocity_calls) < 2 * MaxVelocityCalls
    /\ IF "L_GazeX_HREF" \in DOMAIN df
       THEN LET r == href_velocity(df)
            IN  /\ df' = r.df
                /\ velocity_calls' = velocity_calls \o r.passed
                /\ error' = "none"
       ELSE /\ error' = "KeyError"
            /\ UNCHANGED <<df, velocity_calls>>
    /\ UNCHANGED asc_file
    /\ UNCHANGED normVars

\* ------------------------------------------------------------------------
\* Specifications
\* ------------------------------------------------------------------------
vars == <<normVars, parserVars>>

ParserIdle ==
    /\ asc_file = <<>>
    /\ df = NoDataFrame
    /\ velocity_calls = <<>>
    /\ error = "none"

NormIdle ==
    /\ heap = << <<>> >>
    /\ gaze_pos = 1
    /\ calls = <<>>
    /\ mm_to_target = [isscalar |-> TRUE, v |-> <<F(600)>>]
    /\ screen = [width_px |-> 1920, height_px |-> 1080, px_per_inch |-> F(90)]

Init == NormInit /\ ParserIdle

Next ==
    \/ Call_normalize_px_to_screen
    \/ Call_normalize_max_value
    \/ Call_pixel_to_dva
    \/ Call_normalize_dva_to_screen

Spec == Init /\ [][Next]_vars

ParserStart == ParserInit /\ NormIdle

ParserNext ==
    \/ Call_parse_href
    \/ Call_parse_gaze
    \/ Call_href_velocity

ParserSpec == ParserStart /\ [][ParserNext]_vars

\* ------------------------------------------------------------------------
\* Properties
\* ------------------------------------------------------------------------
Returning == { i \in 1..Len(calls) : ~calls[i].raised }
CallsOf(op) == { i \in 1..Len(calls) : calls[i].op = op }
In(i) == heap[calls[i].arg]
Out(i) == heap[calls[i].ret]
Cells(a) == { <<r, c>> : r \in 1..Len(a), c \in 1..2 }

\* the maximum absolute value over the non-NaN entries (for a series that
\* has one)
Known(a) == { e \in Entries(a) : ~IsNaN(e) }
NanMaxAbs(a) == CHOOSE m \in { Mag(e) : e \in Known(a) } : \A e \in Known(a) : Mag(e) <= m

PositiveFinite(d) == IsFinite(d) /\ d > 0
DistancePositiveFinite == \A k \in 1..Len(mm_to_target.v) : PositiveFinite(mm_to_target.v[k])
TakesDistance(i) == calls[i].op \in {"pixel_to_dva", "normalize_dva_to_screen"}

\* C1: normalize_max_value divides by the maximum absolute value of the
\* non-NaN entries (at least 1): on a series with a NaN and a non-NaN entry,
\* each non-NaN entry v comes back as v / max(M, 1) and each NaN as NaN.
C1_NanAwareMaximum ==
    \A i \in CallsOf("normalize_max_value") :
        (NaN \in Entries(In(i)) /\ Known(In(i)) # {}) =>
            /\ ~calls[i].raised
            /\ \A rc \in Cells(In(i)) :
                  LET v == In(i)[rc[1]][rc[2]]
                  IN  Out(i)[rc[1]][rc[2]] =
                          IF IsNaN(v) THEN NaN
                          ELSE FDiv(v, IMax(NanMaxAbs(In(i)), F(1)))

\* C2: in every transformation function (with a finite positive distance)
\* the output entry at a position is NaN exactly when the input entry at
\* that position is NaN.
C2_NaNPropagationLocal ==
    \A i \in Returning :
        (TakesDistance(i) => DistancePositiveFinite) =>
            \A rc \in Cells(In(i)) :
                IsNaN(Out(i)[rc[1]][rc[2]]) <=> IsNaN(In(i)[rc[1]][rc[2]])

\* the same, for the three functions other than normalize_max_value
NaNPropagationLocalElsewhere ==
    \A i \in Returning \ CallsOf("normalize_max_value") :
        (TakesDistance(i) => DistancePositiveFinite) =>
            \A rc \in Cells(In(i)) :
                IsNaN(Out(i)[rc[1]][rc[2]]) <=> IsNaN(In(i)[rc[1]][rc[2]])

\* C4: normalize_max_value bounds and never amplifies: when the maximum
\* absolute value M exceeds 1 the output's maximum absolute value is exactly
\* 1, and every entry's output is in absolute value at most the input's and
\* at most 1.
C4_BoundsNeverAmplifies ==
    \A i \in CallsOf("normalize_max_value") :
        Known(In(i)) # {} =>
            /\ ~calls[i].raised
            /\ NanMaxAbs(In(i)) > F(1) =>
                  (Known(Out(i)) # {} /\ NanMaxAbs(Out(i)) = F(1))
            /\ \A rc \in Cells(In(i)) :
                  LET v == In(i)[rc[1]][rc[2]]
                      w == Out(i)[rc[1]][rc[2]]
                  IN  ~IsNaN(v) => (FLe(FAbs(w), FAbs(v)) /\ FLe(FAbs(w), F(1)))

\* the same on the series that hold no NaN and no infinity
BoundsNeverAmplifiesOnFinite ==
    \A i \in CallsOf("normalize_max_value") :
        (Len(In(i)) > 0 /\ \A e \in Entries(In(i)) : IsFinite(e)) =>
            /\ ~calls[i].raised
            /\ NanMaxAbs(In(i)) > F(1) => NanMaxAbs(Out(i)) = F(1)
            /\ NanMaxAbs(In(i)) <= F(1) => Out(i) = In(i)
            /\ \A rc \in Cells(In(i)) :
                  LET v == In(i)[rc[1]][rc[2]]
                      w == Out(i)[rc[1]][rc[2]]
                  IN  FLe(FAbs(w), FAbs(v)) /\ FLe(FAbs(w), F(1))

\* C5: normalize_max_value returns a series whose maximum absolute value is
\* at most 1 entry for entry as it is, and so applying it to its own output
\* returns that output.
C5_IdentityInRange ==
    /\ \A i \in CallsOf("normalize_max_value") :
          (Known(In(i)) # {} /\ NanMaxAbs(In(i)) <= F(1)) =>
              (~calls[i].raised /\ Out(i) = In(i))
    /\ \A i \in CallsOf("normalize_max_value") \cap Returning :
          \A j \in CallsOf("normalize_max_value") :
              calls[j].arg = calls[i].ret => (~calls[j].raised /\ Out(j) = Out(i))

\* the larger and the smaller screen dimension, in pixels, and the columns
\* they are the extent of
Larger == IMax(screen.width_px, screen.height_px)
Smaller == IMin(screen.width_px, screen.height_px)
Extent(c) == IF c = 1 THEN screen.width_px ELSE screen.height_px

\* C3: normalize_px_to_screen returns ((x - width/2) / h, (y - height/2) / h)
\* with h = max(width, height) / 2: on the larger dimension pixel 0 maps to
\* -1 and pixel max(width, height) to +1, on the smaller dimension pixel 0
\* and pixel min(width, height) map to -min/max and +min/max, and on a
\* 1920 x 1080 screen the pixel (1920, 540) maps to (1, 0).
C3_PxToScreenFormula ==
    \A i \in CallsOf("normalize_px_to_screen") :
        /\ ~calls[i].raised
        /\ Len(Out(i)) = Len(In(i))
        /\ \A r \in 1..Len(In(i)) :
              LET p == In(i)[r]
                  q == Out(i)[r]
                  h == FDiv(F(Larger), F(2))
              IN  /\ q[1] = FDiv(FSub(p[1], FDiv(F(screen.width_px), F(2))), h)
                  /\ q[2] = FDiv(FSub(p[2], FDiv(F(screen.height_px), F(2))), h)
                  /\ \A c \in 1..2 :
                        /\ (Extent(c) = Larger /\ p[c] = F(0)) => q[c] = F(-1)
                        /\ (Extent(c) = Larger /\ p[c] = F(Larger)) => q[c] = F(1)
                        /\ (Extent(c) = Smaller /\ p[c] = F(0))
                              => q[c] = FNeg(FDiv(F(Smaller), F(Larger)))
                        /\ (Extent(c) = Smaller /\ p[c] = F(Smaller))
                              => q[c] = FDiv(F(Smaller), F(Larger))
                  /\ (screen.width_px = 1920 /\ screen.height_px = 1080
                        /\ p = <<F(1920), F(540)>>) => q = <<F(1), F(0)>>

\* the 1920 x 1080 scenario next to a pixel at the low end of the larger
\* dimension and at the high end of the range
C3_Witness ==
    /\ Len(calls) = 1
    /\ calls[1].op = "normalize_px_to_screen"
    /\ screen.width_px = 1920
    /\ In(1) = << <<F(1920), F(540)>>, <<F(0), F(1920)>> >>
    /\ Out(1)[1] = <<F(1), F(0)>>
    /\ Out(1)[2][1] = F(-1)

\* C6: no transformation function mutates its input: a call leaves every
\* array that existed before it, the distance and the screen as they were,
\* and what it returns is a new array of the shape of its input.
C6_InputsNotMutated ==
    [][ /\ Len(heap') >= Len(heap)
        /\ \A k \in 1..Len(heap) : heap'[k] = heap[k]
        /\ mm_to_target' = mm_to_target
        /\ screen' = screen
        /\ (Len(calls') = Len(calls) + 1 /\ ~calls'[Len(calls')].raised) =>
              LET ret == calls'[Len(calls')].ret
              IN  /\ ret > Len(heap)
                  /\ ret <= Len(heap')
                  /\ gaze_pos' = ret
                  /\ Len(heap'[ret]) = Len(heap[gaze_pos])
                  /\ \A r \in 1..Len(heap'[ret]) : Len(heap'[ret][r]) = 2
      ]_vars

\* two calls in a row, each of a function that works in place on a copy, and
\* each returning something else than it was given
C6_Witness ==
    /\ Len(calls) = 2
    /\ calls[1].op = "normalize_px_to_screen"
    /\ calls[2].op = "pixel_to_dva"
    /\ Len(heap[1]) = 2
    /\ Out(1) # In(1)
    /\ Out(2) # In(2)

\* the distance array whose every element is d, and the gaze_center a call
\* was made with
Constant(d, n) == [isscalar |-> FALSE, v |-> [k \in 1..n |-> d]]
CenterOf(i) == CHOOSE g \in GazeCenters : g.given = calls[i].center

\* C7: pixel_to_dva and normalize_dva_to_screen give with a scalar distance
\* d what they give with the length-N array of d's, and with a per-sample
\* array row i of normalize_dva_to_screen is row i of the input divided on
\* both axes by the angular half-extent at distance element i.
C7_ScalarAndPerSampleDistance ==
    /\ \A i \in CallsOf("pixel_to_dva") :
          mm_to_target.isscalar =>
              Out(i) = DegreesAll(pixel_to_dva_steps(In(i),
                                      Constant(mm_to_target.v[1], Len(In(i))),
                                      screen, CenterOf(i)))
    /\ \A i \in CallsOf("normalize_dva_to_screen") :
          /\ mm_to_target.isscalar =>
                Out(i) = dva_to_screen_result(In(i),
                             Constant(mm_to_target.v[1], Len(In(i))), screen)
          /\ ~mm_to_target.isscalar =>
                /\ Len(Out(i)) = Len(In(i))
                /\ \A r \in 1..Len(In(i)) :
                      LET e == dva_norm_factor(screen, mm_to_target.v[r])
                      IN  Out(i)[r] = <<FDiv(In(i)[r][1], e), FDiv(In(i)[r][2], e)>>

\* a per-sample distance under which the second sample's half-extent differs
\* from the first's, and gives another result than the first's would
C7_Witness ==
    /\ ~mm_to_target.isscalar
    /\ Len(calls) = 2
    /\ calls[1].op = "pixel_to_dva"
    /\ calls[2].op = "normalize_dva_to_screen"
    /\ Len(In(2)) = 2
    /\ IsFinite(In(2)[2][1])
    /\ Out(2)[2][1] # FDiv(In(2)[2][1], dva_norm_factor(screen, mm_to_target.v[1]))

\* the calls i of pixel_to_dva, with the default gaze center and a positive
\* scalar distance, whose result went on to normalize_dva_to_screen
RoundTrips ==
    { i \in CallsOf("pixel_to_dva") :
        /\ ~calls[i].center
        /\ mm_to_target.isscalar /\ PositiveFinite(mm_to_target.v[1])
        /\ i + 1 \in CallsOf("normalize_dva_to_screen")
        /\ calls[i + 1].arg = calls[i].ret }
Direct(i) == px_to_screen_steps(In(i), screen)
ScreenCenter == <<FDiv(F(screen.width_px), F(2)), FDiv(F(screen.height_px), F(2))>>

C8_WitnessEnds ==
    /\ Len(calls) = 2
    /\ 1 \in RoundTrips
    /\ screen.width_px = 1920
    /\ In(1) = << <<F(1920), F(540)>>, <<F(0), F(1920)>> >>
    /\ Out(2)[1][1] = F(1)
    /\ Out(2)[2][1] = F(-1)

\* the malformed inputs: an empty series, a series that is all NaN, a
\* distance that is NaN or infinite
Empty(a) == Len(a) = 0
AllNaN(a) == Len(a) > 0 /\ Entries(a) = {NaN}
NonFiniteDistance == \E k \in 1..Len(mm_to_target.v) : ~IsFinite(mm_to_target.v[k])
Malformed(i) ==
    Empty(In(i)) \/ AllNaN(In(i)) \/ (TakesDistance(i) /\ NonFiniteDistance)

\* C9 as stated: on an empty series, an all-NaN series and a non-finite
\* distance each of the four functions returns an array and does not raise.
C9_NeverRaises ==
    \A i \in 1..Len(calls) : Malformed(i) => ~calls[i].raised

\* C9 as amended: a call raises exactly when it is normalize_max_value on an
\* empty series (np.max of a zero-size array); every other call, on an empty
\* series, an all-NaN series or with a non-finite distance, returns an array
\* of the length of its input.
C9_RaisesOnlyOnEmptyMaximum ==
    \A i \in 1..Len(calls) :
        /\ calls[i].raised <=> (calls[i].op = "normalize_max_value" /\ Empty(In(i)))
        /\ ~calls[i].raised =>
              (calls[i].ret \in 1..Len(heap) /\ Len(Out(i)) = Len(In(i)))

\* a NaN distance given to pixel_to_dva, which returns an all-NaN series,
\* and that series given to normalize_max_value, which returns it
C9_Witness ==
    /\ Len(calls) = 2
    /\ calls[1].op = "pixel_to_dva"
    /\ calls[2].op = "normalize_max_value"
    /\ mm_to_target.v = <<NaN>>
    /\ ~AllNaN(In(1)) /\ AllNaN(In(2)) /\ AllNaN(Out(2))
    /\ Malformed(1) /\ Malformed(2)
    /\ Returning = {1, 2}

\* the empty series: normalize_max_value raises, pixel_to_dva returns it
C9_WitnessEmpty ==
    /\ Len(calls) = 2
    /\ calls[1].op = "normalize_max_value" /\ calls[1].raised
    /\ calls[2].op = "pixel_to_dva" /\ ~calls[2].raised
    /\ Empty(In(2)) /\ Empty(Out(2))

\* the timestamps of the file, in ms as read, and in seconds
RawTime == [i \in 1..Len(asc_file) |-> read_cell(asc_file[i][1])]
Seconds == [i \in 1..Len(asc_file) |-> FDiv(RawTime[i], F(1000))]

\* C10: parse_href and parse_gaze leave Time_EDF in the file's milliseconds;
\* href_velocity passes calc_eye_velocity, for both eyes, the timestamps
\* divided by 1000 once, and never writes them back: after any number of
\* href_velocity calls Time_EDF is unchanged and every call passed the
\* timestamps converted once.
C10_TimestampsConvertedOnce ==
    /\ "Time_EDF" \in DOMAIN df => df["Time_EDF"] = RawTime
    /\ Len(velocity_calls) % 2 = 0
    /\ \A k \in 1..Len(velocity_calls) :
          /\ velocity_calls[k].ts = Seconds
          /\ velocity_calls[k].eye = IF k % 2 = 1 THEN "L" ELSE "R"

\* href_velocity called twice on the DataFrame of a file whose timestamps
\* are not 0
C10_Witness ==
    /\ Len(velocity_calls) = 4
    /\ "L_GazeX_HREF_Vel" \in DOMAIN df
    /\ Len(asc_file) = 2
    /\ RawTime[2] = F(2000)
    /\ velocity_calls[3].ts[2] = F(2)
    /\ df["Time_EDF"][2] = F(2000)

====
